---- MODULE Spec2Model ----
(***************************************************************************)
(* Model of crypto-trading-bot (src/main.py): the Twitter stream consumer  *)
(* TwitterStream.get_stream, the rule dispatch it performs on every line,  *)
(* and the order pipeline launch_trade that it runs in a worker thread.    *)
(*                                                                         *)
(* The main thread is a stack of get_stream activations (the code          *)
(* reconnects by calling itself); worker threads are records that step     *)
(* through launch_trade one exchange call at a time.  Every call to the    *)
(* outside (HTTP, exchange, classifier, notifier) either returns one of    *)
(* its possible results or raises.                                         *)
(***************************************************************************)
EXTENDS Integers, Sequences, FiniteSets

(* ------------------------------ bounds -------------------------------- *)
MaxTime == 3
MaxMedia == 2
MaxThreads == 2
RecursionLimit == 3

(* -------------------------- program constants ------------------------- *)
DEV_ONLY_RULE_TAG == "dev-only"
HAS_MEDIA_RULE_TAG == "has-media"
HUGGINGFACE_MODEL_DOGE_BREED_NAME == "Shiba Inu Dog"
\* 0.32, in hundredths
HUGGINGFACE_MODEL_SCORE_THRESHOLD == 32
ORDER_STATUS_FILLED == "FILLED"
ORDER_STATUS_NEW == "NEW"
DOGE_PAIR == "DOGEUSDT"
\* the keys of trade_config (the configured trading pairs)
trade_config == {"BTCUSDT", "DOGEUSDT"}
\* the configured leverage of every pair
leverage == 2

BUY_BROKE == "WARNING buy order execution broke"
STOP_LOSS_BROKE == "WARNING stop-loss order execution broke"
TRAILING_BROKE == "WARNING trailing-stop order execution broke"
BOUGHT == "Bough"

(* ------------------------------ inputs -------------------------------- *)
\* leverage values the exchange may report for a position
Leverages == {1, 2}
\* positionAmt values the exchange may report: short, flat, long
PositionAmts == {-1, 0, 1}
\* statuses of a re-fetched entry order
EntryStatuses == {"FILLED", "EXPIRED"}
\* statuses returned for a protective order
LegStatuses == {"NEW", "EXPIRED"}
\* tags a stream record may carry; XRPUSDT is not configured
Tags == {DEV_ONLY_RULE_TAG, HAS_MEDIA_RULE_TAG, "BTCUSDT", "XRPUSDT"}

\* an attached media item with what the classifier answers for its url
\* (ok = FALSE: the predictor call raises)
MediaItems ==
    { [type |-> "photo", label |-> HUGGINGFACE_MODEL_DOGE_BREED_NAME, score |-> 32, ok |-> TRUE],
      [type |-> "photo", label |-> HUGGINGFACE_MODEL_DOGE_BREED_NAME, score |-> 31, ok |-> TRUE],
      [type |-> "photo", label |-> "Cat", score |-> 90, ok |-> TRUE],
      [type |-> "video", label |-> HUGGINGFACE_MODEL_DOGE_BREED_NAME, score |-> 90, ok |-> TRUE],
      [type |-> "photo", label |-> HUGGINGFACE_MODEL_DOGE_BREED_NAME, score |-> 90, ok |-> FALSE] }

MediaSeqs == UNION { [1..n -> MediaItems] : n \in 0..MaxMedia }

\* the tags of the rules a record matched, in the order of matching_rules
RuleLists ==
    { <<t>> : t \in Tags }
    \cup { <<"BTCUSDT", DEV_ONLY_RULE_TAG>>, <<DEV_ONLY_RULE_TAG, "BTCUSDT">>,
           <<"XRPUSDT", "BTCUSDT">> }

FirstTag_Last(rules) == IF rules = <<>> THEN "" ELSE rules[Len(rules)]

\* json_response['matching_rules'][0]['tag']
FirstTag(rules) == IF rules = <<>> THEN "" ELSE rules[1]

Line(kind, rules, includes, media) ==
    [kind |-> kind, tag |-> FirstTag(rules), rules |-> rules,
     includes |-> includes, media |-> media]

NoLine == Line("none", <<>>, FALSE, <<>>)

\* the lines a response body may deliver
Lines ==
    { Line(k, <<>>, FALSE, <<>>) : k \in {"blank", "malformed", "nodata", "norules"} }
    \cup { Line("record", r, FALSE, <<>>) : r \in RuleLists }
    \cup { Line("record", <<HAS_MEDIA_RULE_TAG>>, TRUE, m) : m \in MediaSeqs }

Tids == 1..MaxThreads

Call(op, res) == [op |-> op, res |-> res]

IdleThread ==
    [pc |-> "idle", pair |-> "", calls |-> <<>>, sent |-> <<>>,
     lev |-> 0, amt |-> 0, limit |-> 0, price |-> 0, fill |-> 0,
     arg |-> 0, msg |-> "", how |-> ""]

VARIABLES
    mainpc,       \* where the main thread is
    stack,        \* the suspended get_stream activations below the current one
    status,       \* status code of the current activation's response (0: none)
    rlReset,      \* x-rate-limit-reset of the last 429 not yet followed by a connect (-1: none)
    written,      \* how often main() has written each entry of trade_config and margin_balance
    errAt,        \* instant of the last answer other than 200 and 429 not yet followed by a connect (-1: none)
    now,          \* the clock
    interrupted,  \* KeyboardInterrupt has been delivered
    rec,          \* the line being handled (or handled last)
    idx,          \* position of the media scan
    classified,   \* indices of the media items passed to image_contains_doge
    launches,     \* threads started for the line in rec
    joined,       \* the thread the main thread joins (0: none)
    thr           \* the worker threads

vars == <<mainpc, written, stack, status, rlReset, errAt, now, interrupted, rec, idx,
          classified, launches, joined, thr>>

\* trade_config as loaded, without tick_size and quantity_precision, and
\* margin_balance = 0.0 as line 348 declares it
NotWritten ==
    [tick_size |-> [s \in trade_config |-> 0],
     quantity_precision |-> [s \in trade_config |-> 0],
     margin_balance |-> 0]

\* the module-level code of main.py starts to run
Init ==
    /\ mainpc = "config"
    /\ written = NotWritten
    /\ stack = <<>>
    /\ status = 0
    /\ rlReset = -1
    /\ errAt = -1
    /\ now = 0
    /\ interrupted = FALSE
    /\ rec = NoLine
    /\ idx = 0
    /\ classified = <<>>
    /\ launches = 0
    /\ joined = 0
    /\ thr = [t \in Tids |-> IdleThread]

(* ---------------- get_stream: activations and exceptions -------------- *)
Front(s) == SubSeq(s, 1, Len(s) - 1)

Last(s) == s[Len(s)]

Ctl(pc, s, st) == [pc |-> pc, stack |-> s, status |-> st]

\* a further activation of get_stream fits on the call stack
CallAllowed(s) == Len(s) + 1 < RecursionLimit

\* An exception leaves the current activation (it was raised in the handler,
\* at line 274).  Activations suspended at line 274 are in their handler too
\* and let it pass; one suspended at line 224 is inside its try block,
\* catches it and reconnects from its handler.  With none left the
\* exception reaches the top of the main thread.
RECURSIVE Unwind(_)
Unwind(s) ==
    IF s = <<>> THEN Ctl("crashed", <<>>, 0)
    ELSE IF Last(s) = "exc" THEN Unwind(Front(s))
    ELSE Ctl("connecting", Append(Front(s), "exc"), 0)

\* An exception raised inside the try block of the current activation:
\* "except Exception" logs it and calls self.get_stream() from the handler.
Caught(s) ==
    IF CallAllowed(s) THEN Ctl("connecting", Append(s, "exc"), 0)
    ELSE Unwind(s)

\* self.get_stream() at line 224, inside the try block
Reconnect(s) ==
    IF CallAllowed(s) THEN Ctl("connecting", Append(s, "try"), 0)
    ELSE Caught(s)

\* The current activation returns.  A caller suspended at line 274 returns
\* as well; a caller suspended at line 224 goes on to line 228 and iterates
\* the body of its own (429) response.
RECURSIVE Return(_)
Return(s) ==
    IF s = <<>> THEN Ctl("returned", <<>>, 0)
    ELSE IF Last(s) = "exc" THEN Return(Front(s))
    ELSE Ctl("streaming", Front(s), 429)

Goto(c) ==
    /\ mainpc' = c.pc
    /\ stack' = c.stack
    /\ status' = c.status

\* an exception is raised in the try block of the current activation
Raise == Goto(Caught(stack))

\* reset = float(response.headers['x-rate-limit-reset'])+1
ResetInstant(r) == r + 1

\* the argument of time.sleep
SleepDelay(reset, t) == reset - t

(* ------------------------------- startup ------------------------------- *)
\* the places of the module-level code (lines 277-348), which runs outside
\* the try of __main__
MODULE_LEVEL == {"config", "secrets", "adapters"}

\* the ways the main thread ends
ENDED == {"aborted", "failed", "killed", "crashed", "returned", "exited"}

\* The exit status of the process once the main thread has ended (-1: it
\* has not).  sys.exit() without an argument exits with status 0, as
\* sys.exit(0) and a normal return do; an uncaught exception gives 1 (at
\* startup: "failed", in get_stream: "crashed"), an uncaught
\* KeyboardInterrupt 130.
ExitCode(pc) ==
    IF pc \in {"aborted", "exited", "returned"} THEN 0
    ELSE IF pc \in {"failed", "crashed"} THEN 1
    ELSE IF pc = "killed" THEN 130
    ELSE -1

\* config['trading_pairs'][...]: KeyError -> logging.error, sys.exit();
\* load_config itself may raise, which nothing catches
AfterConfig(o) ==
    IF o = "ok" THEN "secrets"
    ELSE IF o = "no_trading_pairs" THEN "aborted"
    ELSE "failed"

\* get_aws_secrets raises -> sys.exit(); it returns None on a ClientError,
\* and itemgetter(...)(None) raises TypeError, which only "except KeyError"
\* guards; a missing key -> KeyError -> sys.exit()
AfterSecrets(o) ==
    IF o = "ok" THEN "adapters"
    ELSE IF o = "none" THEN "failed"
    ELSE "aborted"

\* BinanceFuturesAdapter(...): BinanceAPIException -> sys.exit(), anything
\* else is not caught; TelegramAdapter(...): Exception -> sys.exit()
AfterAdapters(o) ==
    IF o = "ok" THEN "main"
    ELSE IF o = "binance_other" THEN "failed"
    ELSE "aborted"

\* main() up to twitter_stream.get_stream(): an exception of the exchange or
\* of the rules installation is not caught (__main__ catches KeyboardInterrupt)
AfterSetup(o) == IF o = "ok" THEN "connecting" ELSE "failed"

Startup(pc) ==
    /\ mainpc' = pc
    /\ UNCHANGED <<errAt, stack, status, rlReset, now, interrupted, rec, idx, classified, launches, joined, thr>>

load_config ==
    /\ mainpc = "config"
    /\ \E o \in {"ok", "no_trading_pairs", "raise"} : Startup(AfterConfig(o))
    /\ UNCHANGED written

get_aws_secrets ==
    /\ mainpc = "secrets"
    /\ \E o \in {"ok", "raise", "none", "missing_key"} : Startup(AfterSecrets(o))
    /\ UNCHANGED written

adapters ==
    /\ mainpc = "adapters"
    /\ \E o \in {"ok", "binance_api", "binance_other", "telegram"} : Startup(AfterAdapters(o))
    /\ UNCHANGED written

\* the for loop of main() visits every symbol again
NextSymbols_Revisit(w) == trade_config

\* for symbol, pair_config in trade_config.items(): the symbols still to visit
NextSymbols(w) == { s \in trade_config : w.tick_size[s] = 0 }

\* one iteration of the loop: trade_config[symbol]['tick_size'] = ... and
\* trade_config[symbol]['quantity_precision'] = ...; either call may raise
get_tick_size ==
    /\ mainpc = "main"
    /\ \E s \in NextSymbols(written), o \in {"ok", "raise_tick_size", "raise_quantity_precision"} :
         /\ written' = [written EXCEPT
                !.tick_size[s] = IF o = "raise_tick_size" THEN @ ELSE @ + 1,
                !.quantity_precision[s] = IF o = "ok" THEN @ + 1 ELSE @]
         /\ Startup(IF o = "ok" THEN "main" ELSE "failed")

\* global margin_balance; margin_balance = binance.get_margin_balance()
get_margin_balance ==
    /\ mainpc = "main"
    /\ NextSymbols(written) = {}
    /\ \E o \in {"ok", "raise"} :
         /\ written' = [written EXCEPT !.margin_balance = IF o = "ok" THEN @ + 1 ELSE @]
         /\ Startup(IF o = "ok" THEN "rules" ELSE "failed")

\* the rest of main(): the rules are installed, then twitter_stream.get_stream()
main ==
    /\ mainpc = "rules"
    /\ \E o \in {"ok", "raise"} : Startup(AfterSetup(o))
    /\ UNCHANGED written

(* ------------------------ get_stream: connecting ----------------------- *)
Connect200 ==
    /\ mainpc = "connecting"
    /\ mainpc' = "streaming"
    /\ status' = 200
    /\ rlReset' = -1
    /\ errAt' = -1
    /\ UNCHANGED <<written, stack, now, interrupted, rec, idx, classified, launches, joined, thr>>

Connect429 ==
    /\ mainpc = "connecting"
    /\ \E r \in 0..(MaxTime - 1) : rlReset' = r
    /\ mainpc' = "sleeping"
    /\ status' = 429
    /\ errAt' = -1
    /\ UNCHANGED <<written, stack, now, interrupted, rec, idx, classified, launches, joined, thr>>

\* a status other than 200 and 429: raise Exception("Unknown Twitter stream error")
ConnectOther ==
    /\ mainpc = "connecting"
    /\ rlReset' = -1
    /\ Raise
    /\ errAt' = now
    /\ UNCHANGED <<written, now, interrupted, rec, idx, classified, launches, joined, thr>>

\* requests.get raises
ConnectRaise ==
    /\ mainpc = "connecting"
    /\ rlReset' = -1
    /\ Raise
    /\ errAt' = -1
    /\ UNCHANGED <<written, now, interrupted, rec, idx, classified, launches, joined, thr>>

\* time.sleep(reset - time.time()) with a negative argument raises ValueError
SleepPast ==
    /\ mainpc = "sleeping"
    /\ SleepDelay(ResetInstant(rlReset), now) < 0
    /\ Raise
    /\ UNCHANGED <<written, errAt, rlReset, now, interrupted, rec, idx, classified, launches, joined, thr>>

\* the sleep lasts at least the delay; then self.get_stream() at line 224
SleepUntil ==
    /\ mainpc = "sleeping"
    /\ SleepDelay(ResetInstant(rlReset), now) >= 0
    /\ \E t \in (now + SleepDelay(ResetInstant(rlReset), now))..MaxTime : now' = t
    /\ Goto(Reconnect(stack))
    /\ UNCHANGED <<written, errAt, rlReset, interrupted, rec, idx, classified, launches, joined, thr>>

(* ------------------------- worker threads ------------------------------ *)
\* a thread that has been started and has not finished
Live(t) == thr[t].pc \notin {"idle", "done"}

FreeTid == CHOOSE t \in Tids : thr[t].pc = "idle" /\ \A u \in Tids : thr[u].pc = "idle" => t <= u

\* thread = threading.Thread(target=launch_trade, args=(pair, )); thread.start()
StartThread(pair) ==
    /\ \E t \in Tids : thr[t].pc = "idle"
    /\ thr' = [thr EXCEPT ![FreeTid] = [IdleThread EXCEPT !.pc = "start", !.pair = pair]]
    /\ joined' = FreeTid
    /\ launches' = launches + 1
    /\ mainpc' = "joining"

\* a join that does not wait
JoinReturns_NoWait(t) == thr[t].pc # "idle"

\* thread.join() returns once the thread has finished
JoinReturns(t) == thr[t].pc = "done"

(* ---------------------- get_stream: the response body ------------------ *)
\* the score compared with > instead of >=
image_contains_doge_Strict(m) ==
    /\ m.label = HUGGINGFACE_MODEL_DOGE_BREED_NAME
    /\ m.score > HUGGINGFACE_MODEL_SCORE_THRESHOLD

\* first_match['label'] == ... and first_match['score'] >= ...
image_contains_doge(m) ==
    /\ m.label = HUGGINGFACE_MODEL_DOGE_BREED_NAME
    /\ m.score >= HUGGINGFACE_MODEL_SCORE_THRESHOLD

\* the dispatch without its dev-only test
Dispatch_NoDevOnly(l) ==
    IF l.kind = "blank" THEN "skip"
    ELSE IF l.kind = "malformed" THEN "raise"
    ELSE IF l.kind = "nodata" THEN "warn"
    ELSE IF l.kind = "norules" THEN "raise"
    ELSE IF l.tag # HAS_MEDIA_RULE_TAG THEN "trade"
    ELSE IF l.includes /\ l.media # <<>> THEN "scan"
    ELSE "skip"

\* the dispatch without its test for 'data'
Dispatch_NoDataCheck(l) ==
    IF l.kind = "blank" THEN "skip"
    ELSE IF l.kind \in {"malformed", "nodata", "norules"} THEN "raise"
    ELSE IF l.tag = DEV_ONLY_RULE_TAG THEN "skip"
    ELSE IF l.tag # HAS_MEDIA_RULE_TAG THEN "trade"
    ELSE IF l.includes /\ l.media # <<>> THEN "scan"
    ELSE "skip"

\* what lines 231-258 do with a line, up to the first call they make
Dispatch(l) ==
    IF l.kind = "blank" THEN "skip"
    ELSE IF l.kind = "malformed" THEN "raise"
    ELSE IF l.kind = "nodata" THEN "warn"
    ELSE IF l.kind = "norules" THEN "raise"
    ELSE IF l.tag = DEV_ONLY_RULE_TAG THEN "skip"
    ELSE IF l.tag # HAS_MEDIA_RULE_TAG THEN "trade"
    ELSE IF l.includes /\ l.media # <<>> THEN "scan"
    ELSE "skip"

\* response.iter_lines() yields the next line
ReadLine ==
    /\ mainpc = "streaming"
    /\ \E l \in Lines : rec' = l
    /\ mainpc' = "parsed"
    /\ idx' = 0
    /\ classified' = <<>>
    /\ launches' = 0
    /\ UNCHANGED <<written, errAt, stack, status, rlReset, now, interrupted, joined, thr>>

\* the server closes the body: the for loop ends and get_stream returns
CleanClose ==
    /\ mainpc = "streaming"
    /\ Goto(Return(stack))
    /\ UNCHANGED <<written, errAt, rlReset, now, interrupted, rec, idx, classified, launches, joined, thr>>

\* response.iter_lines() raises (I/O error, broken chunk)
StreamError ==
    /\ mainpc = "streaming"
    /\ Raise
    /\ UNCHANGED <<written, errAt, rlReset, now, interrupted, rec, idx, classified, launches, joined, thr>>

\* blank line, record without 'data', dev-only, has-media with nothing to scan
HandleSkip ==
    /\ mainpc = "parsed"
    /\ Dispatch(rec) \in {"skip", "warn"}
    /\ mainpc' = "streaming"
    /\ UNCHANGED <<written, errAt, stack, status, rlReset, now, interrupted, rec, idx, classified, launches, joined, thr>>

\* json.loads raises, or json_response['matching_rules'][0] does
HandleRaise ==
    /\ mainpc = "parsed"
    /\ Dispatch(rec) = "raise"
    /\ Raise
    /\ UNCHANGED <<written, errAt, rlReset, now, interrupted, rec, idx, classified, launches, joined, thr>>

\* any tag but the two reserved ones is taken for a trading pair
HandleTrade ==
    /\ mainpc = "parsed"
    /\ Dispatch(rec) = "trade"
    /\ StartThread(rec.tag)
    /\ UNCHANGED <<written, errAt, stack, status, rlReset, now, interrupted, rec, idx, classified>>

HandleScan ==
    /\ mainpc = "parsed"
    /\ Dispatch(rec) = "scan"
    /\ mainpc' = "scanning"
    /\ idx' = 1
    /\ UNCHANGED <<written, errAt, stack, status, rlReset, now, interrupted, rec, classified, launches, joined, thr>>

\* json_response['includes'] is not read again once the scan is over
Scanned(l) == [l EXCEPT !.media = <<>>]

\* the for loop over the media goes to its next item, or ends with doge_found False
ScanNext ==
    IF idx < Len(rec.media)
    THEN mainpc' = "scanning" /\ idx' = idx + 1 /\ rec' = rec
    ELSE mainpc' = "streaming" /\ idx' = 0 /\ rec' = Scanned(rec)

ScanNonPhoto ==
    /\ mainpc = "scanning"
    /\ rec.media[idx].type # "photo"
    /\ ScanNext
    /\ UNCHANGED <<written, errAt, stack, status, rlReset, now, interrupted, classified, launches, joined, thr>>

\* huggingface_predictor.predict raises
ScanClassifierRaises ==
    /\ mainpc = "scanning"
    /\ rec.media[idx].type = "photo"
    /\ ~rec.media[idx].ok
    /\ classified' = Append(classified, idx)
    /\ rec' = Scanned(rec)
    /\ idx' = 0
    /\ Raise
    /\ UNCHANGED <<written, errAt, rlReset, now, interrupted, launches, joined, thr>>

ScanNoDoge ==
    /\ mainpc = "scanning"
    /\ rec.media[idx].type = "photo"
    /\ rec.media[idx].ok
    /\ ~image_contains_doge(rec.media[idx])
    /\ classified' = Append(classified, idx)
    /\ ScanNext
    /\ UNCHANGED <<written, errAt, stack, status, rlReset, now, interrupted, launches, joined, thr>>

\* doge_found = True; break; then the trade is launched for DOGEUSDT
ScanDoge ==
    /\ mainpc = "scanning"
    /\ rec.media[idx].type = "photo"
    /\ rec.media[idx].ok
    /\ image_contains_doge(rec.media[idx])
    /\ classified' = Append(classified, idx)
    /\ rec' = Scanned(rec)
    /\ idx' = 0
    /\ StartThread(DOGE_PAIR)
    /\ UNCHANGED <<written, errAt, stack, status, rlReset, now, interrupted>>

\* join re-raises what ended the thread
AfterJoin_Propagates(how) ==
    IF how = "returned" THEN Ctl("streaming", stack, status) ELSE Caught(stack)

\* thread.join() returns None however the thread ended: an exception or a
\* SystemExit raised in the thread stays in the thread
AfterJoin(how) == Ctl("streaming", stack, status)

\* thread.join() returns; finished threads are forgotten
Join ==
    /\ mainpc = "joining"
    /\ JoinReturns(joined)
    /\ Goto(AfterJoin(thr[joined].how))
    /\ joined' = 0
    /\ thr' = [t \in Tids |-> IF thr[t].pc = "done" THEN IdleThread ELSE thr[t]]
    /\ UNCHANGED <<written, errAt, rlReset, now, interrupted, rec, idx, classified, launches>>

\* KeyboardInterrupt is no Exception: no activation of get_stream catches it,
\* __main__ does and calls sys.exit(0).  Worker threads are not daemons.
\* The module-level code runs outside that try.
KeyboardInterrupt ==
    /\ ~interrupted
    /\ mainpc \notin ENDED
    /\ interrupted' = TRUE
    /\ mainpc' = IF mainpc \in MODULE_LEVEL THEN "killed" ELSE "exited"
    /\ stack' = <<>>
    /\ status' = 0
    /\ joined' = 0
    /\ UNCHANGED <<written, errAt, rlReset, now, rec, idx, classified, launches, thr>>

Tick ==
    /\ now < MaxTime
    /\ now' = now + 1
    /\ UNCHANGED <<written, errAt, mainpc, stack, status, rlReset, interrupted, rec, idx, classified, launches, joined, thr>>

(* ------------------------------ launch_trade --------------------------- *)
Called(th, op, res) == [th EXCEPT !.calls = Append(@, Call(op, res))]

\* an order call with the price passed to it
Ordered(th, op, price, res) == [Called(th, op, res) EXCEPT !.arg = price]

\* the prices launch_trade holds in local variables are not read again
Released(th) == [th EXCEPT !.limit = 0, !.price = 0, !.fill = 0]

\* the thread ends: launch_trade returned, died of an uncaught exception,
\* or called sys.exit() (SystemExit ends the thread only)
Finish(th, how) == [Released(th) EXCEPT !.pc = "done", !.how = how, !.arg = 0]

At(th, pc) == [th EXCEPT !.pc = pc]

\* an except handler of launch_trade: the message it is about to send
Alert(th, msg) == [Released(th) EXCEPT !.pc = "notify", !.msg = msg]

Step(t, th) ==
    /\ thr' = [thr EXCEPT ![t] = th]
    /\ UNCHANGED <<written, errAt, mainpc, stack, status, rlReset, now, interrupted, rec, idx, classified, launches, joined>>

\* the guard with its bound off by one
AlreadyLong_OffByOne(amt) == amt > 1

\* if float(position_info['positionAmt']) > 0: return
AlreadyLong(amt) == amt > 0

\* the fill check dropped
IsFilled_AnyStatus(st) == st \in EntryStatuses

\* if order['status'] == ORDER_STATUS_FILLED
IsFilled(st) == st = ORDER_STATUS_FILLED

\* the pipeline without its guard
Guard_Missing(th) == At(th, "ask")

\* lines 146-148, after the leverage has been dealt with
Guard(th) == IF AlreadyLong(th.amt) THEN Finish(th, "returned") ELSE At(th, "ask")

\* every tag has a configuration
HasConfig_Any(pair) == TRUE

\* trade_config[pair] does not raise KeyError
HasConfig(pair) == pair \in trade_config

\* the handler of the entry order falls through to the protective orders
BuyFailed_NoReturn(th) == At(th, "stoploss")

\* except Exception around buy_limit and get_order: notify, return
BuyFailed(th) == Alert(th, BUY_BROKE)

\* the unfilled entry order is reported like a failed one
NotFilled_Alerts(th) == Alert(th, BUY_BROKE)

\* the else branch of the fill check: logging.error, return
NotFilled(th) == Finish(th, "returned")

\* itemgetter(...)(trade_config[pair]); KeyError -> sys.exit()
launch_trade(t) ==
    /\ thr[t].pc = "start"
    /\ Step(t, IF HasConfig(thr[t].pair)
               THEN At(thr[t], "position")
               ELSE Finish(thr[t], "sysexit"))

\* the leverage is set on every execution
NeedsLeverage_Always(lev) == TRUE

\* if int(position_info['leverage']) != leverage
NeedsLeverage(lev) == lev # leverage

get_position_information(t) ==
    /\ thr[t].pc = "position"
    /\ \E ok \in BOOLEAN, lev \in Leverages, amt \in PositionAmts :
         Step(t, IF ~ok
                 THEN Finish(Called(thr[t], "get_position_information", "raise"), "died")
                 ELSE LET th == [Called(thr[t], "get_position_information", "ok")
                                   EXCEPT !.lev = lev, !.amt = amt]
                      IN IF NeedsLeverage(lev) THEN At(th, "leverage") ELSE Guard(th))

set_leverage(t) ==
    /\ thr[t].pc = "leverage"
    /\ \E ok \in BOOLEAN :
         Step(t, IF ~ok
                 THEN Finish(Called(thr[t], "set_leverage", "raise"), "died")
                 ELSE Guard(Called(thr[t], "set_leverage", "ok")))

\* the multipliers of trade_config[pair], in percent
limit_price_multiplier == 101

stop_loss_multiplier == 98

take_profit_activation_multiplier == 102

\* trade_config[pair]['tick_size'] as main() got it from the exchange, in
\* price points
tick_size(pair) == IF pair = DOGE_PAIR THEN 1 ELSE 10

\* binance.get_ask_price(pair), in price points
AskPrices == {1000}

\* the largest multiple of step that is <= v / 100
RoundDown(v, step) == (v \div (100 * step)) * step

\* the multiple of step nearest to v / 100
RoundNearest(v, step) == ((v + 50 * step) \div (100 * step)) * step

\* round_step_size of binance.helpers, applied to price * percentage = v.
\* Its body is the library's: python-binance 1.x returns
\* quantity - quantity % step_size, older releases round to the decimal
\* precision of the step (the nearest multiple for a step of 10^-n).
round_step_size(v, step) == {RoundDown(v, step), RoundNearest(v, step)}

\* the prices an immediate-or-cancel buy order with this limit fills at
FillPrices(limit) == {limit, limit - 10}

\* filled_price = float(order['price']): the price the order was created with
filled_price(th) == th.price

\* limit_price = round_step_size(binance.get_ask_price(pair)*limit_price_multiplier, tick_size)
get_ask_price(t) ==
    /\ thr[t].pc = "ask"
    /\ \E ok \in BOOLEAN, ask \in AskPrices :
         \E lp \in round_step_size(ask * limit_price_multiplier, tick_size(thr[t].pair)) :
         Step(t, IF ~ok
                 THEN Finish(Called(thr[t], "get_ask_price", "raise"), "died")
                 ELSE At([Called(thr[t], "get_ask_price", "ok") EXCEPT !.limit = lp], "buy"))

buy_limit(t) ==
    /\ thr[t].pc = "buy"
    /\ \E ok \in BOOLEAN :
         Step(t, IF ~ok
                 THEN BuyFailed(Ordered(thr[t], "buy_limit", thr[t].limit, "raise"))
                 ELSE At(Ordered(thr[t], "buy_limit", thr[t].limit, "ok"), "getorder"))

\* the order comes back with the price it was created with (price=limit_price
\* in _create_limit_order) and, when filled, the price it filled at
get_order(t) ==
    /\ thr[t].pc = "getorder"
    /\ \E ok \in BOOLEAN, st \in EntryStatuses, f \in FillPrices(thr[t].limit) :
         Step(t, IF ~ok
                 THEN BuyFailed(Called(thr[t], "get_order", "raise"))
                 ELSE IF IsFilled(st)
                 THEN At([Called(thr[t], "get_order", st)
                            EXCEPT !.price = thr[t].limit, !.fill = f], "stoploss")
                 ELSE NotFilled(Called(thr[t], "get_order", st)))

\* stop_price = round_step_size(filled_price*stop_loss_multiplier, tick_size)
set_stop_loss(t) ==
    /\ thr[t].pc = "stoploss"
    /\ \E ok \in BOOLEAN, st \in LegStatuses :
         \E p \in round_step_size(filled_price(thr[t]) * stop_loss_multiplier, tick_size(thr[t].pair)) :
         Step(t, IF ~ok
                 THEN Alert(Ordered(thr[t], "set_stop_loss", p, "raise"), STOP_LOSS_BROKE)
                 ELSE At(Ordered(thr[t], "set_stop_loss", p, st), "trailing"))

\* activation_price = round_step_size(filled_price*take_profit_activation_multiplier, tick_size)
set_trailing_stop(t) ==
    /\ thr[t].pc = "trailing"
    /\ \E ok \in BOOLEAN, st \in LegStatuses :
         \E p \in round_step_size(filled_price(thr[t]) * take_profit_activation_multiplier, tick_size(thr[t].pair)) :
         Step(t, IF ~ok
                 THEN Alert(Ordered(thr[t], "set_trailing_stop", p, "raise"), TRAILING_BROKE)
                 ELSE Alert(Ordered(thr[t], "set_trailing_stop", p, st), BOUGHT))

\* telegram.send_message(...); launch_trade returns after it, in every handler
\* and at its end
send_message(t) ==
    /\ thr[t].pc = "notify"
    /\ \E ok \in BOOLEAN :
         Step(t, IF ~ok
                 THEN Finish(thr[t], "died")
                 ELSE Finish([thr[t] EXCEPT !.sent = Append(@, thr[t].msg)], "returned"))

(* ----------------------------- specification --------------------------- *)
Next ==
    \/ load_config
    \/ get_aws_secrets
    \/ adapters
    \/ get_tick_size
    \/ get_margin_balance
    \/ main
    \/ Connect200
    \/ Connect429
    \/ ConnectOther
    \/ ConnectRaise
    \/ SleepPast
    \/ SleepUntil
    \/ ReadLine
    \/ CleanClose
    \/ StreamError
    \/ HandleSkip
    \/ HandleRaise
    \/ HandleTrade
    \/ HandleScan
    \/ ScanNonPhoto
    \/ ScanClassifierRaises
    \/ ScanNoDoge
    \/ ScanDoge
    \/ Join
    \/ KeyboardInterrupt
    \/ Tick
    \/ \E t \in Tids : launch_trade(t)
    \/ \E t \in Tids : get_position_information(t)
    \/ \E t \in Tids : set_leverage(t)
    \/ \E t \in Tids : get_ask_price(t)
    \/ \E t \in Tids : buy_limit(t)
    \/ \E t \in Tids : get_order(t)
    \/ \E t \in Tids : set_stop_loss(t)
    \/ \E t \in Tids : set_trailing_stop(t)
    \/ \E t \in Tids : send_message(t)

Spec == Init /\ [][Next]_vars

(* ======================================================================= *)
(*                                 Claims                                  *)
(* ======================================================================= *)
ORDER_OPS == {"buy_limit", "set_stop_loss", "set_trailing_stop"}

PROTECTIVE_OPS == {"set_stop_loss", "set_trailing_stop"}

OpsOf(th) == { th.calls[i].op : i \in DOMAIN th.calls }

CountOp(th, op) == Cardinality({ i \in DOMAIN th.calls : th.calls[i].op = op })

CountSent(th, msg) == Cardinality({ i \in DOMAIN th.sent : th.sent[i] = msg })

Made(th, op, res) == \E i \in DOMAIN th.calls : th.calls[i] = Call(op, res)

\* the execution has fetched its position
PositionRead(th) == Made(th, "get_position_information", "ok")

\* the execution makes no order call and sends no notification
NoOrderNoNotice(th) ==
    /\ OpsOf(th) \cap ORDER_OPS = {}
    /\ th.sent = <<>>
    /\ th.pc \notin {"buy", "getorder", "stoploss", "trailing", "notify"}

C2_ProtectiveOnlyAfterFill ==
    \A t \in Tids :
        /\ \A i \in DOMAIN thr[t].calls :
             thr[t].calls[i].op \in PROTECTIVE_OPS =>
                \E j \in 1..(i - 1) : thr[t].calls[j] = Call("get_order", ORDER_STATUS_FILLED)
        /\ (\E s \in EntryStatuses \ {ORDER_STATUS_FILLED} : Made(thr[t], "get_order", s)) =>
             /\ thr[t].pc = "done"
             /\ OpsOf(thr[t]) \cap PROTECTIVE_OPS = {}
             /\ CountSent(thr[t], BOUGHT) = 0

C2_Witness ==
    \E t \in Tids :
        /\ thr[t].pc = "done"
        /\ Made(thr[t], "buy_limit", "ok")
        /\ Made(thr[t], "get_order", "EXPIRED")

\* C3: protective legs fail independently.  In an execution whose entry order
\* filled and whose set_stop_loss raised, once the execution has returned one
\* failure notification has been sent for the stop-loss, set_stop_loss was
\* called once and set_trailing_stop was called exactly once.
C3_TrailingStopAfterStopLossFailure ==
    \A t \in Tids :
        (/\ thr[t].pc = "done"
         /\ thr[t].how = "returned"
         /\ Made(thr[t], "set_stop_loss", "raise")) =>
            /\ CountSent(thr[t], STOP_LOSS_BROKE) = 1
            /\ CountOp(thr[t], "set_stop_loss") = 1
            /\ CountOp(thr[t], "set_trailing_stop") = 1

\* C4: the stream consumer never returns once started.  Without a fatal
\* startup error or an interrupt, get_stream never returns to main(), also
\* after the server has closed the response body cleanly.
C4_GetStreamNeverReturns == mainpc # "returned"

LiveThreads == { t \in Tids : Live(t) }

\* C5: at most one execution of launch_trade is in flight, and while one is in
\* flight the main thread waits in thread.join() (or has been interrupted): it
\* neither reads nor dispatches a stream line before the worker has finished.
C5_OneTradeInFlight ==
    /\ Cardinality(LiveThreads) <= 1
    /\ LiveThreads # {} => (mainpc = "joining" /\ Live(joined)) \/ mainpc = "exited"

C5_Witness ==
    /\ mainpc = "joining"
    /\ thr[joined].pc = "trailing"
    /\ thr[joined].pair = "BTCUSDT"

\* C6: rate-limit backoff.  After a 429 carrying reset instant R the sleep
\* never fails, whatever the current time (a delay that would be negative is
\* clamped to 0): it ends with the reconnect of line 224, at a time >= R + 1.
C6_BackoffNeverFails ==
    [][(/\ mainpc = "sleeping"
        /\ mainpc' # "sleeping"
        /\ CallAllowed(stack)
        /\ ~interrupted') =>
            /\ mainpc' = "connecting"
            /\ stack' = Append(stack, "try")
            /\ now' >= rlReset + 1]_vars

\* The part of C6 that the code keeps: a connection attempt that follows a 429
\* carrying reset instant R is made at a time >= R + 1, by the sleep or, when
\* the sleep failed, because R + 1 had passed already.
C6_ReconnectNotBeforeReset ==
    (mainpc = "connecting" /\ rlReset # -1) => now >= rlReset + 1

\* C7: interrupt stops trading.  Once KeyboardInterrupt has been delivered no
\* further exchange call is made by any execution of launch_trade.
C7_NoExchangeCallAfterInterrupt ==
    [][interrupted => \A t \in Tids : thr'[t].calls = thr[t].calls]_vars

\* C8: for a record whose first matching rule is tagged dev-only no thread is
\* started for launch_trade and the classifier is not called; the main thread
\* goes on to the next line of the same response.
C8_DevOnlyDropped ==
    [][(/\ mainpc = "parsed"
        /\ rec.kind = "record"
        /\ rec.tag = "dev-only") =>
            /\ \A t \in Tids : thr[t].pc = "idle" => thr'[t].pc = "idle"
            /\ launches' = 0
            /\ classified' = <<>>
            /\ \/ mainpc' = "parsed"
               \/ interrupted'
               \/ mainpc' = "streaming" /\ stack' = stack /\ status' = status]_vars

C8_Witness ==
    /\ mainpc = "streaming"
    /\ rec.kind = "record"
    /\ rec.tag = "dev-only"
    /\ launches = 0

\* a classifier answer with the target label and a score of at least 0.32
Qualifies(m) == m.ok /\ m.label = "Shiba Inu Dog" /\ m.score >= 32

PhotoIndices(media) == { i \in DOMAIN media : media[i].type = "photo" }

Range(q) == { q[k] : k \in DOMAIN q }

\* C9: for a record tagged has-media a thread is started for launch_trade,
\* once and for DOGEUSDT, exactly when a photo is classified with the target
\* label and a score >= 0.32.  The scan classifies the photos in attachment
\* order, never a non-photo item, and nothing after the first qualifying photo.
C9_HasMediaTradesOnFirstDoge ==
    [][(/\ mainpc \in {"parsed", "scanning"}
        /\ rec.kind = "record"
        /\ rec.tag = "has-media"
        /\ mainpc' # mainpc \/ idx' # idx
        /\ ~interrupted') =>
          IF mainpc = "parsed"
          THEN /\ launches' = 0 /\ classified' = <<>> /\ thr' = thr
               /\ mainpc' = "streaming" <=> rec.media = <<>> \/ ~rec.includes
               /\ mainpc' = "scanning" <=> idx' = 1 /\ rec.includes /\ rec.media # <<>>
          ELSE LET m == rec.media
                   launched == launches' = launches + 1
               IN /\ launches = 0
                  /\ Range(classified) = { i \in PhotoIndices(m) : i < idx }
                  /\ \A i \in Range(classified) : ~Qualifies(m[i])
                  /\ classified' = IF m[idx].type = "photo" THEN Append(classified, idx) ELSE classified
                  /\ launched <=> m[idx].type = "photo" /\ Qualifies(m[idx])
                  /\ launched =>
                       /\ mainpc' = "joining"
                       /\ thr'[joined'].pc = "start"
                       /\ thr'[joined'].pair = "DOGEUSDT"
                       /\ \A t \in Tids \ {joined'} : thr'[t] = thr[t]
                  /\ ~launched => thr' = thr
                  /\ mainpc' = "scanning" => idx' = idx + 1 /\ ~launched
                  /\ mainpc' = "streaming" =>
                       /\ launches' = 0
                       /\ Range(classified') = PhotoIndices(m)
                       /\ \A i \in PhotoIndices(m) : ~Qualifies(m[i])]_vars

C9_Witness ==
    /\ mainpc = "joining"
    /\ rec.tag = "has-media"
    /\ classified = <<1, 2>>
    /\ launches = 1
    /\ thr[joined].pair = "DOGEUSDT"
    /\ thr[joined].pc = "buy"

\* C10: self-healing on stream errors.  However many exceptions are raised
\* while connecting or iterating the body, each is caught and followed by a
\* new connection attempt: the main thread never ends on one.
C10_StreamErrorsNeverTerminate == mainpc # "crashed"

\* the execution is in, or past, an except handler of launch_trade
Notifying(th) == th.pc \in {"notify", "done"}

\* C11: the entry order is never retried.  buy_limit is called at most once
\* per execution of launch_trade.  When buy_limit or the get_order after it
\* raises, the execution goes to send the one failure notification of the
\* entry order and nothing else, calls neither set_stop_loss nor
\* set_trailing_stop nor buy_limit again, and once it has returned exactly
\* that one notification has been sent.
C11_EntryOrderNeverRetried ==
    \A t \in Tids :
        /\ CountOp(thr[t], "buy_limit") <= 1
        /\ (Made(thr[t], "buy_limit", "raise") \/ Made(thr[t], "get_order", "raise")) =>
             /\ Notifying(thr[t])
             /\ thr[t].msg = BUY_BROKE
             /\ OpsOf(thr[t]) \cap PROTECTIVE_OPS = {}
             /\ Last(thr[t].calls).op \in {"buy_limit", "get_order"}
             /\ thr[t].sent = IF thr[t].pc = "done" /\ thr[t].how = "returned"
                              THEN <<BUY_BROKE>> ELSE <<>>

C11_Witness ==
    \E t \in Tids :
        /\ thr[t].pc = "done"
        /\ thr[t].how = "returned"
        /\ Made(thr[t], "buy_limit", "ok")
        /\ Made(thr[t], "get_order", "raise")
        /\ thr[t].sent = <<BUY_BROKE>>

\* the entry order was submitted and re-fetched with a status other than FILLED
Unfilled(th) == \E s \in EntryStatuses \ {ORDER_STATUS_FILLED} : Made(th, "get_order", s)

\* C12 (as stated): an unfilled entry order alerts the operator.  When the
\* entry order was submitted and its re-fetched status is not FILLED, the
\* execution is over and an operator notification reporting the failure has
\* been sent by the time it returns.
C12_UnfilledEntryAlerts ==
    \A t \in Tids :
        Unfilled(thr[t]) =>
            /\ thr[t].pc \in {"notify", "done"}
            /\ (thr[t].pc = "done" /\ thr[t].how = "returned") => thr[t].sent # <<>>

\* C12 (amended): when the entry order was submitted and its re-fetched
\* status is not FILLED, launch_trade returns at once (the non-fill is logged
\* as an error): no protective order is placed and no notification of any
\* kind is sent or attempted.
C12_UnfilledEntryLoggedOnly ==
    \A t \in Tids :
        Unfilled(thr[t]) =>
            /\ thr[t].pc = "done"
            /\ thr[t].how = "returned"
            /\ thr[t].msg = ""
            /\ thr[t].sent = <<>>
            /\ Last(thr[t].calls).op = "get_order"

C12_Witness ==
    \E t \in Tids :
        /\ Unfilled(thr[t])
        /\ thr[t].how = "returned"
        /\ thr[t].sent = <<>>
        /\ thr[t].pair = "BTCUSDT"

\* the entry order filled and both protective legs were accepted as NEW
AllLegsPlaced(th) ==
    /\ Made(th, "get_order", ORDER_STATUS_FILLED)
    /\ Made(th, "set_stop_loss", ORDER_STATUS_NEW)
    /\ Made(th, "set_trailing_stop", ORDER_STATUS_NEW)

\* C13: the success notification marks a fully protected position.  An
\* execution of launch_trade sends the consolidated success notification at
\* most once; an execution that returned with the entry order filled and both
\* protective legs returned with status NEW has sent it, and no other
\* execution sends it, in particular none in which a leg returned with a
\* status other than NEW.
C13_SuccessNoticeIffAllLegsPlaced ==
    \A t \in Tids :
        /\ CountSent(thr[t], BOUGHT) <= 1
        /\ (thr[t].pc = "done" /\ thr[t].how = "returned" /\ AllLegsPlaced(thr[t])) =>
             CountSent(thr[t], BOUGHT) = 1
        /\ CountSent(thr[t], BOUGHT) = 1 => AllLegsPlaced(thr[t])

\* C14: exit codes.  The process exits with status 0 when it is interrupted,
\* and with a status other than 0 on every unrecoverable startup error
\* (trading_pairs missing from the configuration, secrets that cannot be
\* retrieved, a required secret key missing, an adapter or main() failing
\* before the stream starts).
C14_ExitCodes ==
    /\ interrupted => ExitCode(mainpc) = 0
    /\ mainpc \in {"aborted", "failed"} => ExitCode(mainpc) # 0

\* a record whose first tag is no reserved tag and no configured pair
UnknownTag(l) ==
    /\ l.kind = "record"
    /\ l.rules[1] \notin {"dev-only", "has-media"} \cup trade_config

\* C15: an unknown tag is a harmless no-op.  For a record whose first tag is
\* neither dev-only nor has-media nor a key of trade_config, the execution of
\* launch_trade makes no exchange call and sends no notification, the process
\* does not exit, and the main thread goes on to the next line of the same
\* response.
C15_UnknownTagNoOp ==
    [][(/\ mainpc \in {"parsed", "joining"}
        /\ UnknownTag(rec)
        /\ ~interrupted') =>
            /\ \A t \in Tids :
                 /\ thr'[t].calls = <<>>
                 /\ thr'[t].sent = <<>>
                 /\ thr'[t].pc \in {"idle", "start", "done"}
                 /\ thr'[t].pc # "idle" => thr'[t].pair = rec.rules[1]
            /\ mainpc' \in {"parsed", "joining", "streaming"}
            /\ stack' = stack
            /\ status' = status]_vars

C15_Witness ==
    /\ mainpc = "streaming"
    /\ status = 200
    /\ UnknownTag(rec)
    /\ launches = 1
    /\ \A t \in Tids : thr[t] = IdleThread

\* the main thread goes on with the response it was reading
SameConnection ==
    \/ mainpc' = mainpc /\ stack' = stack /\ status' = status
    \/ mainpc' = "streaming" /\ stack' = stack /\ status' = status

\* no thread is started for the line in rec
NoPipeline == thr' = thr /\ launches' = 0 /\ joined' = joined

\* C16 (as stated): protocol anomalies are skipped without dropping the
\* connection.  A non-blank line that is malformed, or a record without
\* 'data' or without a first entry in matching_rules, starts no pipeline and
\* causes no reconnect: the main thread goes on with the following lines of
\* the same response.
C16_AnomaliesSkipped ==
    [][(/\ mainpc = "parsed"
        /\ rec.kind \in {"malformed", "nodata", "norules"}
        /\ ~interrupted') =>
            NoPipeline /\ SameConnection]_vars

\* C16 (amended): a record without 'data' starts no pipeline and causes no
\* reconnect, the main thread goes on with the same response.  A malformed
\* line, or a record without a first entry in matching_rules, starts no
\* pipeline either, but raises: the response is abandoned for the handler of
\* stream errors, which calls get_stream again (or fails to, with the stack
\* exhausted).
C16_OnlyMissingDataSkipped ==
    [][(/\ mainpc = "parsed"
        /\ rec.kind \in {"malformed", "nodata", "norules"}
        /\ ~interrupted') =>
            /\ NoPipeline
            /\ rec.kind = "nodata" => SameConnection
            /\ rec.kind # "nodata" =>
                 \/ mainpc' = mainpc /\ stack' = stack /\ status' = status
                 \/ mainpc' = "connecting" /\ stack' # stack /\ status' = 0
                 \/ mainpc' = "crashed"]_vars

C16_Witness ==
    /\ mainpc = "connecting"
    /\ rec.kind = "norules"
    /\ stack = <<"exc">>
    /\ launches = 0
    /\ \A t \in Tids : thr[t] = IdleThread

\* the pair a record asks a trade for, "" when a rule of the dispatcher
\* drops it (dev-only, has-media without a qualifying photo, unknown tag)
PairOf(l) ==
    IF l.kind # "record" THEN ""
    ELSE IF l.rules[1] = "dev-only" THEN ""
    ELSE IF l.rules[1] = "has-media"
         THEN IF l.includes /\ \E i \in PhotoIndices(l.media) : Qualifies(l.media[i])
              THEN "DOGEUSDT" ELSE ""
    ELSE IF l.rules[1] \in trade_config THEN l.rules[1]
    ELSE ""

\* C17: events are handled in delivery order with none lost.  Every record
\* the dispatcher does not drop results in an invocation of launch_trade for
\* its pair before the main thread turns to anything else, also when an error
\* occurs while the record is handled.
C17_NoRecordLost ==
    [][(/\ mainpc \in {"parsed", "scanning"}
        /\ PairOf(rec) # ""
        /\ mainpc' \notin {"parsed", "scanning"}
        /\ ~interrupted') =>
            /\ mainpc' = "joining"
            /\ launches' = 1
            /\ thr'[joined'].pc = "start"
            /\ thr'[joined'].pair = PairOf(rec)]_vars

\* C18: one decision per record, none per heartbeat.  A blank line starts no
\* pipeline, logs no warning and causes no reconnect.  A record, however many
\* rules it matched, starts at most one thread for launch_trade, and the
\* pair that thread gets is decided by the tag of the first entry of
\* matching_rules alone (that tag itself, or DOGEUSDT when it is has-media).
C18_OneDecisionPerRecord ==
    [][/\ (mainpc = "parsed" /\ rec.kind = "blank" /\ ~interrupted') =>
            /\ NoPipeline
            /\ SameConnection
            /\ Dispatch(rec) = "skip"
       /\ launches' <= 1
       /\ launches' > launches =>
            /\ mainpc \in {"parsed", "scanning"}
            /\ rec.kind = "record"
            /\ Len(rec.rules) >= 1
            /\ thr'[joined'].pc = "start"
            /\ thr'[joined'].pair =
                 IF rec.rules[1] = "has-media" THEN "DOGEUSDT" ELSE rec.rules[1]
            /\ \A t \in Tids \ {joined'} : thr'[t] = thr[t]]_vars

C18_Witness ==
    /\ mainpc = "joining"
    /\ rec.rules = <<"BTCUSDT", "dev-only">>
    /\ launches = 1
    /\ thr[joined].pair = "BTCUSDT"
    /\ thr[joined].pc = "start"

\* the main thread sends the request of requests.get
ConnectionAttempt ==
    /\ mainpc = "connecting"
    /\ mainpc' # mainpc \/ stack' # stack
    /\ ~interrupted'

\* C19: the generic recovery is delayed.  After a connection attempt answered
\* with a status other than 200 and 429 the next connection attempt is made
\* only after a positive delay, never at the instant of the failed one.
C19_GenericRecoveryDelayed ==
    [][(ConnectionAttempt /\ errAt # -1) => now > errAt]_vars

\* an exchange call of the execution raised
ExchangeFailure(th) == \E i \in DOMAIN th.calls : th.calls[i].res = "raise"

\* C20: every exchange failure inside the pipeline is handled the same way.
\* When any exchange call of launch_trade raises (get_position_information,
\* set_leverage, get_ask_price, buy_limit, get_order, set_stop_loss,
\* set_trailing_stop) the execution makes no further exchange call and goes to
\* notify the operator of the failure; once it has returned the failure
\* notification has been sent.
C20_EveryExchangeFailureNotified ==
    \A t \in Tids :
        ExchangeFailure(thr[t]) =>
            /\ Last(thr[t].calls).res = "raise"
            /\ Notifying(thr[t])
            /\ thr[t].msg \in {BUY_BROKE, STOP_LOSS_BROKE, TRAILING_BROKE}
            /\ (thr[t].pc = "done" /\ thr[t].how = "returned") => Len(thr[t].sent) = 1

\* where the main thread is once twitter_stream.get_stream() has been called
STREAM == {"connecting", "sleeping", "streaming", "parsed", "scanning",
           "joining", "returned", "crashed"}

\* every entry main() fills in has been written once
AllWrittenOnce(w) ==
    /\ \A s \in trade_config : w.tick_size[s] = 1 /\ w.quantity_precision[s] = 1
    /\ w.margin_balance = 1

\* C21: the startup state is frozen before streaming.  tick_size and
\* quantity_precision of every configured symbol and margin_balance are each
\* written once by main(), all of them before the first connection attempt;
\* once get_stream has been called no step writes any of them, and no
\* execution of launch_trade asks the exchange for the margin balance.
C21_StartupStateFrozen ==
    [][/\ mainpc' \in STREAM => AllWrittenOnce(written')
       /\ written' # written =>
            /\ mainpc = "main"
            /\ \A s \in trade_config :
                 written'.tick_size[s] <= 1 /\ written'.quantity_precision[s] <= 1
            /\ written'.margin_balance <= 1
       /\ \A t \in Tids : "get_margin_balance" \notin OpsOf(thr'[t])]_vars

C21_Witness ==
    /\ mainpc = "joining"
    /\ thr[joined].pc = "buy"
    /\ AllWrittenOnce(written)
    /\ stack = <<"exc">>

\* the positions of set_leverage among the exchange calls of an execution
LeverageCalls(th) == { i \in DOMAIN th.calls : th.calls[i].op = "set_leverage" }

\* C22: the leverage is set only when needed.  In every execution of
\* launch_trade set_leverage is called exactly when the leverage reported by
\* the position read differs from the configured one, at most once, right
\* after the position read and so before every order call.
C22_LeverageSetIffDiffers ==
    \A t \in Tids :
        /\ LeverageCalls(thr[t]) \subseteq {2}
        /\ LeverageCalls(thr[t]) # {} => PositionRead(thr[t]) /\ thr[t].lev # leverage
        /\ (PositionRead(thr[t]) /\ thr[t].lev # leverage) =>
             \/ thr[t].pc = "leverage" /\ Len(thr[t].calls) = 1
             \/ LeverageCalls(thr[t]) = {2}
        /\ thr[t].pc = "leverage" => PositionRead(thr[t]) /\ thr[t].lev # leverage

C22_Witness ==
    \E t \in Tids :
        /\ thr[t].pc = "trailing"
        /\ thr[t].lev = 1
        /\ thr[t].calls[2] = Call("set_leverage", "ok")
        /\ thr[t].calls[4].op = "buy_limit"

\* the multiple of the pair's tick size nearest to P * percentage
round_to_tick(th, pct) == RoundNearest(th.fill * pct, tick_size(th.pair))

\* C23: the protective prices derive from the fill.  The stop price passed to
\* set_stop_loss is round_to_tick(P x stop_loss_multiplier, tick_size) and the
\* activation price passed to set_trailing_stop is
\* round_to_tick(P x take_profit_activation_multiplier, tick_size), P being
\* the price the entry order filled at and not the limit price it was
\* submitted with; each is the multiple of tick_size nearest to the unrounded
\* value.
C23_ProtectivePricesFromFill ==
    [][\A t \in Tids :
        Len(thr'[t].calls) = Len(thr[t].calls) + 1 =>
            LET op == Last(thr'[t].calls).op
                tick == tick_size(thr[t].pair)
            IN /\ op = "set_stop_loss" =>
                    /\ thr'[t].arg = round_to_tick(thr[t], stop_loss_multiplier)
                    /\ thr'[t].arg % tick = 0
               /\ op = "set_trailing_stop" =>
                    /\ thr'[t].arg = round_to_tick(thr[t], take_profit_activation_multiplier)
                    /\ thr'[t].arg % tick = 0]_vars

\* C24: only successful responses are consumed.  Whatever rate-limit
\* responses, reconnects and closes came before, a line is read, parsed and
\* dispatched, and a thread is started for launch_trade, only from the body
\* of a response with status 200: the body of a 429 response is never
\* iterated.
C24_OnlyStatus200Consumed ==
    mainpc \in {"parsed", "scanning", "joining"} => status = 200

\* the activations of get_stream on the call stack of the main thread
LiveActivations ==
    IF mainpc \in STREAM \ {"returned", "crashed"} THEN Len(stack) + 1 ELSE 0

\* The responses whose with block has not been left: the one of the current
\* activation once requests.get has returned, and those of the activations
\* suspended at line 224, inside their with block (the handler of line 274
\* runs after the with block has closed the response).
OpenResponses ==
    Cardinality({ i \in DOMAIN stack : stack[i] = "try" })
    + (IF mainpc \in {"sleeping", "streaming", "parsed", "scanning", "joining"} THEN 1 ELSE 0)

\* C25: reconnects do not accumulate resources.  In every reachable state at
\* most one streaming response is open and at most one activation of
\* get_stream is live, however many reconnects there have been.
C25_ReconnectsReleaseResources ==
    /\ LiveActivations <= 1
    /\ OpenResponses <= 1

\* the exchange calls that change the account
STATE_CHANGING_OPS == ORDER_OPS \cup {"set_leverage"}

Failed(th) == th.pc = "done" /\ th.how \in {"died", "sysexit"}

\* C27: a failing pipeline never disturbs the stream.  An exception raised
\* inside an execution of launch_trade (an exchange call outside the guarded
\* steps, the notifier, the sys.exit() on a missing configuration key) ends
\* that execution only: the main thread, waiting in join, sees none of it
\* and goes on to the next line of the same response, without a reconnect
\* and without the process ending.
C27_FailingPipelineKeepsStream ==
    [][(/\ mainpc = "joining"
        /\ ~interrupted') =>
            /\ mainpc' \in {"joining", "streaming"}
            /\ stack' = stack
            /\ status' = status
            /\ rec' = rec
            /\ (Failed(thr[joined]) /\ thr' # thr) =>
                 /\ mainpc' = "streaming"
                 /\ \A t \in Tids : thr'[t].pc = "idle"]_vars

C27_Witness ==
    /\ mainpc = "joining"
    /\ Failed(thr[joined])
    /\ thr[joined].msg = STOP_LOSS_BROKE
    /\ thr[joined].sent = <<>>
    /\ status = 200

====
